---- MODULE Spec2Model ----
(***************************************************************************)
(* Model of the custom JSON decoding of src/order.go:                      *)
(*   Order.UnmarshalJSON      (lines 256-270)                              *)
(*   OrderItem.UnmarshalJSON  (lines 216-251)                              *)
(*                                                                         *)
(* A payload is an abstract JSON value: syntactically invalid bytes, null, *)
(* a string, a number, an array or an object.  An object carries, for each *)
(* field the decoders look at, either the field's JSON value or Absent.    *)
(* Order is projected on ID and Status and OrderItem on Type and Parent:    *)
(* the other fields of the two structs are plain fields that encoding/json *)
(* decodes as it decodes Status and Type (stored when well typed, left at  *)
(* zero when absent, an error when the JSON value has another type).       *)
(***************************************************************************)
EXTENDS Naturals, Sequences, FiniteSets, TLC

\* ------------------------------------------------------------- bounds
NumIDs == 2

\* ---------------------------------------------------------- constants
OrderStatusPaid == "paid"

OrderItemTypeCoupon == "coupon"
OrderItemTypeDiscount == "discount"
OrderItemTypeShipping == "shipping"
OrderItemTypeSKU == "sku"
OrderItemTypeTax == "tax"

OrderItemParentTypeCoupon == "coupon"
OrderItemParentTypeShipping == "shipping"
OrderItemParentTypeSKU == "sku"

\* ------------------------------------------------------- JSON values
IDs == {"id_" \o ToString(i) : i \in 1..NumIDs}
Strs == {""} \cup IDs

Absent == [kind |-> "absent"]
JMalformed == [kind |-> "malformed"]
JNull == [kind |-> "null"]
JArr == [kind |-> "array"]
JStr(s) == [kind |-> "string", str |-> s]
JNum == [kind |-> "number"]

\* An expanded SKU object, with its "id" field.
JSKUObj(id) == [kind |-> "object", id |-> id]

\* An order object, with its "id" and "status" fields.
JOrderObj(id, status) == [kind |-> "object", id |-> id, status |-> status]

\* An order item object, with its "type" and "parent" fields.
JItemObj(type, parent) == [kind |-> "object", type |-> type, parent |-> parent]

IDFields == {Absent, JNull, JNum} \cup {JStr(s) : s \in Strs}
StatusFields == {Absent, JStr(OrderStatusPaid), JNum}
TypeFields ==
    {Absent, JNum} \cup
    {JStr(t) : t \in {OrderItemTypeCoupon, OrderItemTypeDiscount,
                      OrderItemTypeShipping, OrderItemTypeSKU, OrderItemTypeTax}}
ParentFields ==
    {Absent, JNull, JNum, JArr} \cup {JStr(s) : s \in Strs}
        \cup {JSKUObj(id) : id \in IDFields}

NonObjects == {JMalformed, JNull, JNum, JArr} \cup {JStr(s) : s \in Strs}

OrderPayloads ==
    NonObjects \cup
    {JOrderObj(id, st) : id \in IDFields, st \in StatusFields}

ItemPayloads ==
    NonObjects \cup
    {JItemObj(ty, pa) : ty \in TypeFields, pa \in ParentFields}

\* ------------------------------------------------------ Go zero values
ZeroOrder == [ID |-> "", Status |-> ""]

NilSKU == [isNil |-> TRUE, ID |-> ""]
NewSKU(id) == [isNil |-> FALSE, ID |-> id]

NilParent == [isNil |-> TRUE, ID |-> "", SKU |-> NilSKU, Type |-> ""]
\* &OrderItemParent{}
EmptyParent == [isNil |-> FALSE, ID |-> "", SKU |-> NilSKU, Type |-> ""]

ZeroOrderItem == [Type |-> "", Parent |-> NilParent]

NoCall == [op |-> "none", data |-> JNull, pre |-> ZeroOrder]

\* ---------------------------------------------------- encoding/json
\* json.Unmarshal of one JSON value into a Go string holding cur: a JSON
\* string is stored, null (and an absent object field) has no effect, any
\* other value is an UnmarshalTypeError that leaves the target alone.
UnmarshalString(frag, cur) ==
    CASE frag.kind = "string" -> [err |-> FALSE, val |-> frag.str]
      [] frag.kind \in {"null", "absent"} -> [err |-> FALSE, val |-> cur]
      [] OTHER -> [err |-> TRUE, val |-> cur]

\* ParseID(data): the payload read as a bare JSON string.
ParseID(data) ==
    IF data.kind = "string"
    THEN [ok |-> TRUE, id |-> data.str]
    ELSE [ok |-> FALSE, id |-> ""]

\* json.Unmarshal(data, &v) with v a zero value of the method-less copy of
\* Order (line 264).
UnmarshalOrderStruct(data) ==
    CASE data.kind = "null" -> [err |-> FALSE, v |-> ZeroOrder]
      [] data.kind = "object" ->
            LET id == UnmarshalString(data.id, "")
                st == UnmarshalString(data.status, "")
            IN  [err |-> id.err \/ st.err,
                 v |-> [ID |-> id.val, Status |-> st.val]]
      [] OTHER -> [err |-> TRUE, v |-> ZeroOrder]

\* json.Unmarshal(data, &v) with v a zero value of the method-less copy of
\* OrderItem (line 219); Parent is tagged json:"-" and stays nil.
UnmarshalOrderItemStruct(data) ==
    CASE data.kind = "null" -> [err |-> FALSE, v |-> ZeroOrderItem]
      [] data.kind = "object" ->
            LET ty == UnmarshalString(data.type, "")
            IN  [err |-> ty.err,
                 v |-> [Type |-> ty.val, Parent |-> NilParent]]
      [] OTHER -> [err |-> TRUE, v |-> ZeroOrderItem]

\* json.Unmarshal(data, &rawObject) into a map[string]*json.RawMessage
\* (line 230), read at the key "parent": a missing key and a JSON null both
\* give a nil *json.RawMessage, and so does the nil map a null payload leaves.
RawObjectParent(data) ==
    CASE data.kind = "null" -> [err |-> FALSE, isNil |-> TRUE, raw |-> JNull]
      [] data.kind = "object" ->
            IF data.parent.kind \in {"absent", "null"}
            THEN [err |-> FALSE, isNil |-> TRUE, raw |-> JNull]
            ELSE [err |-> FALSE, isNil |-> FALSE, raw |-> data.parent]
      [] OTHER -> [err |-> TRUE, isNil |-> TRUE, raw |-> JNull]

\* json.Unmarshal(frag, &oi.Parent.SKU) for a non-null fragment: the decoder
\* allocates the SKU before it decodes into it.  The outcomes are the error and
\* the SKU's ID.  The SKU decoder is not part of order.go: whether it accepts a
\* bare id string is left open, both outcomes are allowed.
UnmarshalSKU(frag) ==
    CASE frag.kind = "object" ->
            LET id == UnmarshalString(frag.id, "")
            IN  {[err |-> id.err, sku |-> NewSKU(IF id.err THEN "" ELSE id.val)]}
      [] frag.kind = "string" ->
            {[err |-> FALSE, sku |-> NewSKU(frag.str)],
             [err |-> TRUE, sku |-> NewSKU("")]}
      [] OTHER -> {[err |-> TRUE, sku |-> NewSKU("")]}

\* -------------------------------------------------- Order.UnmarshalJSON
\* Variant: the bare-id path returns without storing the id.
OrderUnmarshalJSON_DropsID(o, data) ==
    LET p == ParseID(data)
        s == UnmarshalOrderStruct(data)
    IN  IF p.ok
        THEN [o |-> o, ret |-> "nil"]
        ELSE IF s.err
             THEN [o |-> o, ret |-> "error"]
             ELSE [o |-> s.v, ret |-> "nil"]

\* Variant: *o = Order(v) is done before the error of the decode is looked at.
OrderUnmarshalJSON_AssignsFirst(o, data) ==
    LET p == ParseID(data)
        s == UnmarshalOrderStruct(data)
    IN  IF p.ok
        THEN [o |-> [o EXCEPT !.ID = p.id], ret |-> "nil"]
        ELSE [o |-> s.v, ret |-> IF s.err THEN "error" ELSE "nil"]

\* Variant: the object is decoded into the receiver itself, so that a field the
\* object does not carry keeps the receiver's earlier value.
OrderUnmarshalJSON_Merges(o, data) ==
    LET p == ParseID(data)
        s == UnmarshalOrderStruct(data)
    IN  IF p.ok
        THEN [o |-> [o EXCEPT !.ID = p.id], ret |-> "nil"]
        ELSE IF s.err
             THEN [o |-> o, ret |-> "error"]
             ELSE [o |-> [ID |-> IF s.v.ID = "" THEN o.ID ELSE s.v.ID,
                          Status |-> IF s.v.Status = "" THEN o.Status ELSE s.v.Status],
                   ret |-> "nil"]

\* The receiver after the call and what the call returns.
OrderUnmarshalJSON(o, data) ==
    LET p == ParseID(data)
        s == UnmarshalOrderStruct(data)
    IN  IF p.ok
        THEN [o |-> [o EXCEPT !.ID = p.id], ret |-> "nil"]
        ELSE IF s.err
             THEN [o |-> o, ret |-> "error"]
             ELSE [o |-> s.v, ret |-> "nil"]

\* ----------------------------------------------- OrderItem.UnmarshalJSON
\* Variant: the error of the parent decode is dropped instead of returned.
ParentIDBranch_SwallowsErr(item, raw, tag) ==
    IF raw.isNil
    THEN {[oi |-> item, ret |-> "panic"]}
    ELSE LET d == UnmarshalString(raw.raw, item.Parent.ID)
         IN  IF d.err
             THEN {[oi |-> [item EXCEPT !.Parent.ID = d.val, !.Parent.Type = tag],
                    ret |-> "nil"]}
             ELSE {[oi |-> [item EXCEPT !.Parent.ID = d.val], ret |-> "nil"]}

\* case OrderItemTypeCoupon / OrderItemTypeShipping (lines 235-242), entered
\* with oi.Parent == &OrderItemParent{}.
ParentIDBranch(item, raw, tag) ==
    IF raw.isNil
    THEN {[oi |-> item, ret |-> "panic"]}
    ELSE LET d == UnmarshalString(raw.raw, item.Parent.ID)
         IN  IF d.err
             THEN {[oi |-> [item EXCEPT !.Parent.ID = d.val, !.Parent.Type = tag],
                    ret |-> "error"]}
             ELSE {[oi |-> [item EXCEPT !.Parent.ID = d.val], ret |-> "nil"]}

\* case OrderItemTypeSKU (lines 243-247).
ParentSKUBranch(item, raw) ==
    IF raw.isNil
    THEN {[oi |-> item, ret |-> "panic"]}
    ELSE {IF d.err
          THEN [oi |-> [item EXCEPT !.Parent.SKU = d.sku,
                                    !.Parent.ID = d.sku.ID,
                                    !.Parent.Type = OrderItemParentTypeSKU],
                ret |-> "error"]
          ELSE [oi |-> [item EXCEPT !.Parent.SKU = d.sku], ret |-> "nil"]
          : d \in UnmarshalSKU(raw.raw)}

\* Variant: the switch has a default case that reads the parent as an id.
OrderItemUnmarshalJSON_DefaultCase(oi, data) ==
    LET s == UnmarshalOrderItemStruct(data)
        item == [s.v EXCEPT !.Parent = EmptyParent]
        raw == RawObjectParent(data)
    IN  IF s.err
        THEN {[oi |-> oi, ret |-> "error"]}
        ELSE IF raw.err
             THEN {[oi |-> item, ret |-> "error"]}
             ELSE CASE item.Type = OrderItemTypeCoupon ->
                        ParentIDBranch(item, raw, OrderItemParentTypeCoupon)
                    [] item.Type = OrderItemTypeShipping ->
                        ParentIDBranch(item, raw, OrderItemParentTypeShipping)
                    [] item.Type = OrderItemTypeSKU ->
                        ParentSKUBranch(item, raw)
                    [] OTHER -> ParentIDBranch(item, raw, "")

\* The set of (receiver after the call, what the call returns).
OrderItemUnmarshalJSON(oi, data) ==
    LET s == UnmarshalOrderItemStruct(data)
        item == [s.v EXCEPT !.Parent = EmptyParent]
        raw == RawObjectParent(data)
    IN  IF s.err
        THEN {[oi |-> oi, ret |-> "error"]}
        ELSE IF raw.err
             THEN {[oi |-> item, ret |-> "error"]}
             ELSE CASE item.Type = OrderItemTypeCoupon ->
                        ParentIDBranch(item, raw, OrderItemParentTypeCoupon)
                    [] item.Type = OrderItemTypeShipping ->
                        ParentIDBranch(item, raw, OrderItemParentTypeShipping)
                    [] item.Type = OrderItemTypeSKU ->
                        ParentSKUBranch(item, raw)
                    [] OTHER -> {[oi |-> item, ret |-> "nil"]}

\* ------------------------------------------------------- state machine
\* o, oi : the receivers (an Order and an OrderItem owned by the caller)
\* ret   : what the last call returned: "nil", "error", or "panic" when it
\*         aborted on a nil dereference ("none" before any call)
\* call  : the last call: its method, its payload and its receiver before it
VARIABLES o, oi, ret, call

vars == <<o, oi, ret, call>>

Init ==
    /\ o = ZeroOrder
    /\ oi = ZeroOrderItem
    /\ ret = "none"
    /\ call = NoCall

\* json.Unmarshal(data, &o), or any caller of o.UnmarshalJSON(data).  A panic
\* is not recovered anywhere in order.go: after one, no further call is made.
DecodeOrder ==
    /\ ret # "panic"
    /\ \E data \in OrderPayloads :
          LET r == OrderUnmarshalJSON(o, data)
          IN  /\ o' = r.o
              /\ ret' = r.ret
              /\ call' = [op |-> "Order", data |-> data, pre |-> o]
    /\ UNCHANGED oi

\* json.Unmarshal(data, &oi), or any caller of oi.UnmarshalJSON(data).
DecodeOrderItem ==
    /\ ret # "panic"
    /\ \E data \in ItemPayloads :
          \E r \in OrderItemUnmarshalJSON(oi, data) :
              /\ oi' = r.oi
              /\ ret' = r.ret
              /\ call' = [op |-> "OrderItem", data |-> data, pre |-> oi]
    /\ UNCHANGED o

Next == DecodeOrder \/ DecodeOrderItem

Spec == Init /\ [][Next]_vars

\* -------------------------------------------------------- properties
\* What a payload is, read off the payload alone.
OrderCall == call.op = "Order"
ItemCall == call.op = "OrderItem"

\* A field of an object that a Go string accepts.
StringTyped(f) == f.kind \in {"absent", "null", "string"}

\* An object matching the Order schema.
OrderObject(d) == d.kind = "object" /\ StringTyped(d.id) /\ StringTyped(d.status)

\* An item object whose scalar fields match the OrderItem schema, of type ty.
ItemObjectOfType(d, ty) == d.kind = "object" /\ d.type = JStr(ty)

\* The item payloads on which the decode against the OrderItem schema fails.
OuterDecodeFails(d) ==
    \/ d.kind \in {"malformed", "string", "number", "array"}
    \/ d.kind = "object" /\ ~StringTyped(d.type)

\* An item payload with a parent fragment (present, not null).
HasParentFragment(d) == d.kind = "object" /\ d.parent.kind \notin {"absent", "null"}

\* A parent fragment that is an expanded SKU object.
SKUShaped(f) == f.kind = "object" /\ StringTyped(f.id)

\* The parent fragment does not have the shape the item's type implies.
\* (A bare string under type sku is left out: order.go does not say whether the
\* SKU decoder accepts it.)
ParentShapeMismatch(d) ==
    /\ HasParentFragment(d)
    /\ \/ /\ d.type \in {JStr(OrderItemTypeCoupon), JStr(OrderItemTypeShipping)}
          /\ d.parent.kind # "string"
       \/ /\ d.type = JStr(OrderItemTypeSKU)
          /\ d.parent.kind # "string"
          /\ ~SKUShaped(d.parent)

\* The parent fragment has the shape the item's type implies.
ParentShapeMatch(d) ==
    /\ HasParentFragment(d)
    /\ \/ /\ d.type \in {JStr(OrderItemTypeCoupon), JStr(OrderItemTypeShipping)}
          /\ d.parent.kind = "string"
       \/ /\ d.type = JStr(OrderItemTypeSKU)
          /\ SKUShaped(d.parent)

\* C1: Order.UnmarshalJSON on a bare JSON string s, applied to a zero-valued
\* Order, returns no error and leaves ID = s with every other field zero; on a
\* full order object with "id": s it returns no error and leaves ID = s together
\* with the fields the object carries.
C1_OrderReferenceDuality ==
    OrderCall =>
        /\ (call.data.kind = "string" /\ call.pre = ZeroOrder) =>
                /\ ret = "nil"
                /\ o = [ID |-> call.data.str, Status |-> ""]
        /\ (OrderObject(call.data) /\ call.data.id.kind = "string") =>
                /\ ret = "nil"
                /\ o.ID = call.data.id.str
                /\ call.data.status.kind = "string" => o.Status = call.data.status.str
                /\ call.data.status.kind # "string" => o.Status = ""

C1_Witness ==
    /\ OrderCall
    /\ call.pre = ZeroOrder
    /\ call.data = JStr("id_1")
    /\ ret = "nil"
    /\ o.ID = "id_1"

\* C2: for an item of type coupon (shipping) whose parent is a JSON string p,
\* OrderItem.UnmarshalJSON returns no error and leaves Parent.ID = p and
\* Parent.Type = coupon (shipping).
C2_CouponShippingParent ==
    (/\ ItemCall
     /\ \/ ItemObjectOfType(call.data, OrderItemTypeCoupon)
        \/ ItemObjectOfType(call.data, OrderItemTypeShipping)
     /\ call.data.parent.kind = "string") =>
        /\ ret = "nil"
        /\ oi.Parent.ID = call.data.parent.str
        /\ oi.Parent.Type = call.data.type.str

\* C3: for an item of type sku whose parent is an expanded SKU object with id k,
\* OrderItem.UnmarshalJSON returns no error and leaves Parent.SKU.ID = k,
\* Parent.ID = k and Parent.Type = sku.
C3_SKUParentExpanded ==
    (/\ ItemCall
     /\ ItemObjectOfType(call.data, OrderItemTypeSKU)
     /\ call.data.parent.kind = "object"
     /\ call.data.parent.id.kind = "string") =>
        /\ ret = "nil"
        /\ ~oi.Parent.SKU.isNil
        /\ oi.Parent.SKU.ID = call.data.parent.id.str
        /\ oi.Parent.ID = call.data.parent.id.str
        /\ oi.Parent.Type = OrderItemParentTypeSKU

\* C4: for an item object whose type is not coupon, shipping or sku (discount,
\* tax, or no type at all) OrderItem.UnmarshalJSON decodes no parent, returns no
\* error and leaves a non-nil Parent with empty ID, empty Type and no SKU,
\* whatever the parent field holds and whether it is there or not.
C4_OtherTypesNoParentDecode ==
    (/\ ItemCall
     /\ call.data.kind = "object"
     /\ call.data.type \in {JStr(OrderItemTypeDiscount), JStr(OrderItemTypeTax),
                            Absent, JNull}) =>
        /\ ret = "nil"
        /\ ~oi.Parent.isNil
        /\ oi.Parent.ID = ""
        /\ oi.Parent.Type = ""
        /\ oi.Parent.SKU.isNil

C4_Witness ==
    /\ ItemCall
    /\ call.data = JItemObj(JStr(OrderItemTypeDiscount), JStr("id_1"))
    /\ ret = "nil"
    /\ oi.Type = OrderItemTypeDiscount
    /\ oi.Parent = EmptyParent

\* C5: after an OrderItem.UnmarshalJSON call that reaches the type branch,
\* Parent.Type is non-empty if and only if the parent fragment decoded against
\* the shape the type implies.
C5_ParentTypeIffDecoded ==
    (ItemCall /\ ret \in {"nil", "error"}) =>
        /\ ParentShapeMatch(call.data) => oi.Parent.Type # ""
        /\ ParentShapeMismatch(call.data) => oi.Parent.Type = ""

\* C6 as stated: when the decode of the parent fragment against the shape the
\* type implies fails, OrderItem.UnmarshalJSON returns no error.
C6_ParentFailureSwallowed ==
    (ItemCall /\ ParentShapeMismatch(call.data)) => ret = "nil"

\* C6 as amended: when the decode of the parent fragment against the shape the
\* type implies fails, OrderItem.UnmarshalJSON returns that failure to the
\* caller as a non-nil error.
C6_ParentFailureReturned ==
    (ItemCall /\ ParentShapeMismatch(call.data)) => ret = "error"

C6_Witness ==
    /\ ItemCall
    /\ call.data = JItemObj(JStr(OrderItemTypeCoupon), JSKUObj(JStr("id_1")))
    /\ ret = "error"

\* C7 as stated: Order.UnmarshalJSON on a payload that is neither a bare string
\* nor an object matching the Order schema, and OrderItem.UnmarshalJSON on a
\* payload whose outer decode fails, return a non-nil error and leave the
\* receiver as it was before the call.
C7_MalformedIsFatal ==
    /\ (/\ OrderCall
        /\ call.data.kind # "string"
        /\ ~OrderObject(call.data)) => (ret = "error" /\ o = call.pre)
    /\ (ItemCall /\ OuterDecodeFails(call.data)) => (ret = "error" /\ oi = call.pre)

\* C7 as amended: the same, for an Order payload that is neither a bare string,
\* nor an object matching the Order schema, nor the JSON literal null.
C7_MalformedIsFatalButNull ==
    /\ (/\ OrderCall
        /\ call.data.kind \notin {"string", "null"}
        /\ ~OrderObject(call.data)) => (ret = "error" /\ o = call.pre)
    /\ (ItemCall /\ OuterDecodeFails(call.data)) => (ret = "error" /\ oi = call.pre)

C7_Witness ==
    /\ OrderCall
    /\ call.data = JOrderObj(JStr("id_2"), JNum)
    /\ ret = "error"
    /\ call.pre = [ID |-> "id_1", Status |-> OrderStatusPaid]
    /\ o = call.pre

\* C8 as stated: after every Order.UnmarshalJSON call that returns no error the
\* Order's ID is non-empty.
C8_IDAlwaysPresent ==
    (OrderCall /\ ret = "nil") => o.ID # ""

\* The id a payload carries: the bare string, or the object's "id" string.
PayloadID(d) ==
    CASE d.kind = "string" -> d.str
      [] d.kind = "object" /\ d.id.kind = "string" -> d.id.str
      [] OTHER -> ""

\* C8 as amended: after every Order.UnmarshalJSON call that returns no error the
\* Order's ID is the id the payload carries (the bare string, or the "id" string
\* of the object), and is empty when the payload carries none.
C8_IDIsPayloadID ==
    (OrderCall /\ ret = "nil") => o.ID = PayloadID(call.data)

C8_Witness ==
    /\ OrderCall
    /\ ret = "nil"
    /\ call.pre.ID = "id_1"
    /\ call.data = JOrderObj(Absent, JStr(OrderStatusPaid))
    /\ o = [ID |-> "", Status |-> OrderStatusPaid]

\* C9: the receiver after a successful decode of a payload is what decoding
\* that payload into a zero-valued receiver gives, whatever the receiver held.
C9_DecodeIsPure ==
    /\ (OrderCall /\ ret = "nil") =>
            o = OrderUnmarshalJSON(ZeroOrder, call.data).o
    /\ (ItemCall /\ ret = "nil") =>
            oi \in {r.oi : r \in OrderItemUnmarshalJSON(ZeroOrderItem, call.data)}

\* C10: on a payload that is a JSON object OrderItem.UnmarshalJSON returns (an
\* item or an error) and never aborts on a nil dereference.
C10_NoNilDereference ==
    (ItemCall /\ call.data.kind = "object") => ret \in {"nil", "error"}

====
